---- MODULE Spec2Model ----
(***************************************************************************)
(* The ADW orchestration core: the state store (StateManager), the stage   *)
(* pipeline executor and the canceller (TaskProcessor), and the port       *)
(* allocator (ADWState).                                                   *)
(*                                                                         *)
(*   Spec       one task driven by TaskProcessor.process_task on a worker  *)
(*              thread, with TaskProcessor.stop_task and shutdown racing   *)
(*   SpecStore  two StateManager mutators and a reader on one state.json   *)
(*   SpecPorts  ADWState.initialize_state / allocate_ports for several ids *)
(***************************************************************************)
EXTENDS Integers, Sequences, FiniteSets, TLC

\* ------------------------------------------------------------- bounds
MaxStages == 2
MaxRetries == 2
\* hash(adw_id) is drawn from -MaxHash..MaxHash
MaxHash == 16
\* tasks submitted to the queue or to execute_task
MaxTasks == 2
\* start_worker_threads(num_workers) is called with 1..MaxWorkers
MaxWorkers == 2
\* days the clock of SpecCleanup runs
MaxDays == 3

StageNames == <<"plan", "implement", "test", "review">>

Min(a, b) == IF a < b THEN a ELSE b

\* the stage lists a task is submitted with
StageLists == { SubSeq(StageNames, 1, n) : n \in 0..Min(MaxStages, Len(StageNames)) }

Threads == {"worker", "stopper"}

\* ------------------------------------------------------------- values
\* Python's None: as a lock holder, and as a record-valued optional
None == "None"
Null == [kind |-> "None"]
\* a formatted message about a stage (f"Stage {stage} failed", ...)
Msg(text, stage) == [text |-> text, stage |-> stage]
\* no state.json on disk
NoFile == [kind |-> "missing"]
\* a state.json that open(..., 'w') truncated and that is not (fully) written
Partial == [kind |-> "partial"]

INITIALIZED == "initialized"
EXECUTING == "executing"
COMPLETED == "completed"
FAILED == "failed"
CANCELLED == "cancelled"

Terminal == {COMPLETED, FAILED, CANCELLED}

VARIABLES
    file,               \* content of agents/{adw_id}/state.json
    lock,               \* holder of StateManager._locks[adw_id], or None
    th,                 \* per thread: the StateManager call it is inside
    last,               \* history: the last record written completely
    task_data,          \* the task given to process_task
    config,             \* WorkflowConfig / PipelineConfig values in force
    wpc,                \* position of the worker inside process_task
    i,                  \* loop index of process_task (0-based, as enumerate)
    attempt,            \* loop index of execute_stage's retry loop (a local)
    result,             \* what process_task returned
    procRunning,        \* an external stage process is running
    shutdown_event,     \* TaskProcessor.shutdown_event
    active_executions,  \* TaskProcessor.active_executions (keys)
    spc,                \* position of the caller of stop_task
    started,            \* history: stages handed to execute_stage, in order
    completeCalls,      \* history: stages for which complete_stage was called
    launches,           \* history: script launches since execute_stage began,
                        \*   cleared when the stage's result is recorded
    outcome,            \* history: how the last of these launches ended
    slept,              \* history: the time.sleep calls of execute_stage's
                        \*   retry loop (seconds), cleared with launches
    outputs,            \* stages whose agents/{adw_id}/{stage}_output.json
                        \*   exists with status "completed"
    failCalls,          \* history: stages for which fail_stage was called
    termSent,           \* history: stop_task sent terminate() to a process
    stopSeen,           \* history: what the last stop_task call found
    base,               \* SpecStore: the record on disk before the two calls
    loaded,             \* SpecStore: what an observer's load_state returned
    crashed,            \* SpecStore: the process was killed
    pyhash,             \* SpecPorts: hash(adw_id) of the running interpreter
    adws,               \* SpecPorts: the persisted adw_state.json per adw_id
    execution_queue,    \* TaskProcessor.execution_queue (a PriorityQueue)
    wk,                 \* per worker thread: position in _worker_loop, task
    direct,             \* the task execute_task runs on the main thread
    tstatus,            \* per task: where it is between submit and the end
    dir,                \* the trigger files in adws_dir, by name
    processed_triggers, \* monitor_file_triggers' local set of names
    scan,               \* monitor_file_triggers: position in the poll loop
    trees,              \* per adw_id: its state, trees/{adw_id}, git's records
    agents,             \* SpecCleanup: agents/{task_id}/state.json, by task id
    archived,           \* SpecCleanup: archived/{task_id}, by task id
    clock,              \* SpecCleanup: datetime.now(), in days
    lastCleanup,        \* history: the cleanup call that has just returned
    locks,              \* SpecLocks: StateManager._locks[adw_id], the
                        \*   number of a Lock object, or 0 for no entry
    lk,                 \* per thread: its position inside save_state and
                        \*   the Lock object _get_lock returned to it
    made                \* number of Lock objects created so far

vars == <<file, lock, th, last, task_data, config, wpc, i, attempt, result,
          procRunning, shutdown_event, active_executions, spc,
          started, completeCalls, launches, outcome, slept, outputs, failCalls, termSent,
          stopSeen, base, loaded, crashed, pyhash, adws,
          execution_queue, wk, direct, tstatus,
          dir, processed_triggers, scan, trees,
          agents, archived, clock, lastCleanup, locks, lk, made>>

storeVars == <<file, lock, th, last>>
workerVars == <<wpc, i, attempt, result, procRunning, started, completeCalls,
                launches, outcome, slept, outputs, failCalls>>
stopVars == <<spc, termSent, stopSeen>>
otherVars == <<base, loaded, crashed, pyhash, adws>>
queueVars == <<execution_queue, wk, direct, tstatus>>
watchVars == <<dir, processed_triggers, scan>>
treeVars == <<trees>>
cleanVars == <<agents, archived, clock, lastCleanup>>
lockVars == <<locks, lk, made>>
extVars == <<queueVars, watchVars, treeVars, cleanVars, lockVars>>
envVars == <<task_data, config, shutdown_event, active_executions, otherVars,
             extVars>>

\* ------------------------------------------------------------- StateData
\* progress is a float in the code; it is kept exactly, as num/den
Progress(n, d) == [num |-> n, den |-> d]

SeqToSet(s) == { s[k] : k \in 1..Len(s) }

Contains(s, x) == x \in SeqToSet(s)

\* list.remove(x): drops the first occurrence
RECURSIVE Remove(_, _)
Remove(s, x) ==
    IF s = << >> THEN << >>
    ELSE IF Head(s) = x THEN Tail(s)
    ELSE <<Head(s)>> \o Remove(Tail(s), x)

\* StateData(**task_data) with __post_init__'s defaults
StateData(td) ==
    [ stages           |-> td.stages,
      workflow_status  |-> INITIALIZED,
      current_stage    |-> "",
      completed_stages |-> << >>,
      failed_stages    |-> << >>,
      current_action   |-> "",
      progress         |-> Progress(0, 1),
      logs             |-> << >>,
      error_message    |-> Null ]

\* the body of update_status between load_state and save_state
UpdateStatus(state, status, current_action, error_message) ==
    [ state EXCEPT
        !.workflow_status = status,
        !.current_action = IF current_action # "" THEN current_action ELSE @,
        !.error_message = IF error_message # Null THEN error_message ELSE @ ]

\* the body of update_stage between load_state and save_state
UpdateStage(state, stage, progress) ==
    [ state EXCEPT
        !.current_stage = stage,
        !.workflow_status = EXECUTING,
        !.progress = IF progress # Null THEN progress ELSE @ ]

\* mutant of CompleteStage: progress is not recomputed
CompleteStage_KeepsProgress(state, stage) ==
    LET completed == IF Contains(state.completed_stages, stage)
                     THEN state.completed_stages
                     ELSE Append(state.completed_stages, stage)
        all_done == Len(completed) = Len(state.stages)
    IN  [ state EXCEPT
            !.completed_stages = completed,
            !.failed_stages = IF Contains(@, stage) THEN Remove(@, stage) ELSE @,
            !.workflow_status = IF all_done THEN COMPLETED ELSE @,
            !.current_stage = IF all_done THEN "completed" ELSE @,
            !.current_action = IF all_done THEN "Task execution completed" ELSE @ ]

\* the body of complete_stage between load_state and save_state
CompleteStage(state, stage) ==
    LET completed == IF Contains(state.completed_stages, stage)
                     THEN state.completed_stages
                     ELSE Append(state.completed_stages, stage)
        failed == IF Contains(state.failed_stages, stage)
                  THEN Remove(state.failed_stages, stage)
                  ELSE state.failed_stages
        total_stages == Len(state.stages)
        completed_count == Len(completed)
        all_done == completed_count = total_stages
    IN  [ state EXCEPT
            !.completed_stages = completed,
            !.failed_stages = failed,
            !.progress = Progress(completed_count * 100, total_stages),
            !.workflow_status = IF all_done THEN COMPLETED ELSE @,
            !.current_stage = IF all_done THEN "completed" ELSE @,
            !.current_action = IF all_done THEN "Task execution completed" ELSE @ ]

\* mutant of FailStage: the stage is left in completed_stages
FailStage_KeepsCompleted(state, stage, error_message) ==
    [ state EXCEPT
        !.failed_stages = IF Contains(@, stage) THEN @ ELSE Append(@, stage),
        !.workflow_status = FAILED,
        !.error_message = error_message ]

\* the body of fail_stage between load_state and save_state
FailStage(state, stage, error_message) ==
    LET failed == IF Contains(state.failed_stages, stage)
                  THEN state.failed_stages
                  ELSE Append(state.failed_stages, stage)
        completed == IF Contains(state.completed_stages, stage)
                     THEN Remove(state.completed_stages, stage)
                     ELSE state.completed_stages
    IN  [ state EXCEPT
            !.failed_stages = failed,
            !.completed_stages = completed,
            !.workflow_status = FAILED,
            !.error_message = error_message ]

\* the body of add_log between load_state and save_state
AddLog(state, level, stage, message) ==
    [ state EXCEPT
        !.logs = Append(@, [level |-> level, stage |-> stage, message |-> message]) ]

\* a mutator call, as data: name and arguments
OpUpdateStatus(status, action, err) ==
    [name |-> "update_status", status |-> status, action |-> action, err |-> err]
OpUpdateStage(stage, progress) ==
    [name |-> "update_stage", stage |-> stage, progress |-> progress]
OpCompleteStage(stage) == [name |-> "complete_stage", stage |-> stage]
OpFailStage(stage, err) == [name |-> "fail_stage", stage |-> stage, err |-> err]
OpAddLog(level, stage, message) ==
    [name |-> "add_log", level |-> level, stage |-> stage, message |-> message]
NoOp == [name |-> "none"]

\* the in-memory change a mutator makes to the state it loaded
Apply(op, state) ==
    CASE op.name = "update_status" -> UpdateStatus(state, op.status, op.action, op.err)
      [] op.name = "update_stage" -> UpdateStage(state, op.stage, op.progress)
      [] op.name = "complete_stage" -> CompleteStage(state, op.stage)
      [] op.name = "fail_stage" -> FailStage(state, op.stage, op.err)
      [] op.name = "add_log" -> AddLog(state, op.level, op.stage, op.message)
      [] OTHER -> state

\* ------------------------------------------------------------- StateManager
\* load_state: None when the file is missing or json.load raises on it
LoadState(f) == IF f = NoFile \/ f = Partial THEN Null ELSE f

IdleFrame == [pc |-> "idle", op |-> NoOp, st |-> Null, ret |-> "none"]

\* load_state and the in-memory change of one mutator: no lock is taken here
MutatorLoad(t, op) ==
    /\ th[t].pc = "idle"
    /\ th' = IF LoadState(file) = Null
             THEN [th EXCEPT ![t] = [pc |-> "idle", op |-> op, st |-> Null,
                                     ret |-> "false"]]
             ELSE [th EXCEPT ![t] = [pc |-> "save", op |-> op,
                                     st |-> Apply(op, LoadState(file)),
                                     ret |-> "none"]]
    /\ UNCHANGED <<file, lock, last>>

\* save_state, first half: take the per-task lock, mkdir, open(state_file, 'w')
SaveOpen(t) ==
    /\ th[t].pc = "save"
    /\ lock = None
    /\ lock' = t
    /\ file' = Partial
    /\ th' = [th EXCEPT ![t].pc = "write"]
    /\ UNCHANGED last

\* save_state, second half: json.dump, close, release the lock, return True
SaveWrite(t) ==
    /\ th[t].pc = "write"
    /\ lock = t
    /\ file' = th[t].st
    /\ last' = th[t].st
    /\ lock' = None
    /\ th' = [th EXCEPT ![t].pc = "idle", ![t].ret = "true"]

\* ------------------------------------------------------------- TaskProcessor
AdwId == "adw_1"

Stages == task_data.stages
TotalStages == Len(Stages)
\* stages[i] of the running loop iteration
Stage == Stages[i + 1]

WorkerIdle == th["worker"].pc = "idle"

\* process_task, lines 94-96: initialize_state builds the record and saves it
ProcessTaskStart ==
    /\ wpc = "start"
    /\ WorkerIdle
    /\ th' = [th EXCEPT !["worker"] =
                [pc |-> "save", op |-> [name |-> "initialize_state"],
                 st |-> StateData(task_data), ret |-> "none"]]
    /\ wpc' = "set_executing"
    /\ UNCHANGED <<file, lock, last, i, attempt, result, procRunning, started,
                   completeCalls, launches, slept, outputs, outcome,
                   failCalls>>
    /\ UNCHANGED <<stopVars, envVars>>

\* process_task, line 97: WorkflowLogger(...) makes the log directory and
\* opens the log file; an OSError there is raised into process_task
WorkflowLoggerRaises ==
    /\ wpc = "set_executing"
    /\ WorkerIdle
    /\ wpc' = "except"
    /\ UNCHANGED <<i, attempt, result, procRunning, started, completeCalls,
                   launches, slept, outputs, outcome, failCalls>>
    /\ UNCHANGED <<storeVars, stopVars, envVars>>

\* process_task, lines 162-169: except Exception, update_status(FAILED, ..)
ExceptHandler ==
    /\ wpc = "except"
    /\ MutatorLoad("worker",
            OpUpdateStatus(FAILED, "Task processing error",
                           Msg("Task processing error", "")))
    /\ wpc' = "except_return"
    /\ UNCHANGED <<i, attempt, result, procRunning, started, completeCalls,
                   launches, slept, outputs, outcome, failCalls>>
    /\ UNCHANGED <<stopVars, envVars>>

\* process_task, lines 170-171: return False
ExceptReturn ==
    /\ wpc = "except_return"
    /\ WorkerIdle
    /\ result' = "false"
    /\ wpc' = "done"
    /\ UNCHANGED <<i, attempt, procRunning, started, completeCalls, launches, slept, outputs,
                   outcome, failCalls>>
    /\ UNCHANGED <<storeVars, stopVars, envVars>>

\* process_task, lines 101-106
SetExecuting ==
    /\ wpc = "set_executing"
    /\ MutatorLoad("worker",
            OpUpdateStatus(EXECUTING, "Processing task through stages", Null))
    /\ wpc' = "loop"
    /\ UNCHANGED <<i, attempt, result, procRunning, started, completeCalls,
                   launches, slept, outputs, outcome, failCalls>>
    /\ UNCHANGED <<stopVars, envVars>>

\* the for loop of process_task is exhausted
LoopExit ==
    /\ wpc = "loop"
    /\ WorkerIdle
    /\ i >= TotalStages
    /\ wpc' = "finish"
    /\ UNCHANGED <<i, attempt, result, procRunning, started, completeCalls,
                   launches, slept, outputs, outcome, failCalls>>
    /\ UNCHANGED <<storeVars, stopVars, envVars>>

\* process_task, lines 114-116: break on shutdown
LoopShutdownBreak ==
    /\ wpc = "loop"
    /\ WorkerIdle
    /\ i < TotalStages
    /\ shutdown_event
    /\ wpc' = "finish"
    /\ UNCHANGED <<i, attempt, result, procRunning, started, completeCalls,
                   launches, slept, outputs, outcome, failCalls>>
    /\ UNCHANGED <<storeVars, stopVars, envVars>>

\* process_task, lines 118-122: update_stage(adw_id, stage, i / total * 100)
StageBegin ==
    /\ wpc = "loop"
    /\ i < TotalStages
    /\ ~shutdown_event
    /\ MutatorLoad("worker", OpUpdateStage(Stage, Progress(i * 100, TotalStages)))
    /\ wpc' = "log_start"
    /\ UNCHANGED <<i, attempt, result, procRunning, started, completeCalls,
                   launches, slept, outputs, outcome, failCalls>>
    /\ UNCHANGED <<stopVars, envVars>>

\* process_task, line 123
LogStart ==
    /\ wpc = "log_start"
    /\ MutatorLoad("worker", OpAddLog("info", Stage, "Starting stage"))
    /\ wpc' = "exec"
    /\ UNCHANGED <<i, attempt, result, procRunning, started, completeCalls,
                   launches, slept, outputs, outcome, failCalls>>
    /\ UNCHANGED <<stopVars, envVars>>

\* execute_stage, lines 196-200: pipelines_dir holds no {stage}_pipeline.py
\* at this moment, so _execute_default_stage runs and no script is launched
ExecuteDefaultStage ==
    /\ wpc = "exec"
    /\ WorkerIdle
    /\ attempt' = 0
    /\ launches' = 0
    /\ slept' = << >>
    /\ UNCHANGED outputs
    /\ outcome' = "none"
    /\ started' = Append(started, Stage)
    /\ wpc' = "default"
    /\ UNCHANGED <<i, result, procRunning, completeCalls, failCalls>>
    /\ UNCHANGED <<storeVars, stopVars, envVars>>

\* write_json_file of _execute_default_stage: the temporary file replaces
\* {stage}_output.json, or an OSError leaves the directory as it was
WriteOutputFile(files, stage, written) ==
    IF written THEN files \cup {stage} ELSE files

\* a default stage that reports success whatever write_json_file answered
DefaultStageResult_AlwaysWritten(written) == "written"

\* _execute_default_stage, lines 314-321: success is write_json_file's answer
DefaultStageResult(written) ==
    IF written THEN "written" ELSE "write_failed"

\* _execute_default_stage returns what write_json_file returned
DefaultStageEnds(written) ==
    /\ wpc = "default"
    /\ outputs' = WriteOutputFile(outputs, Stage, written)
    /\ outcome' = DefaultStageResult(written)
    /\ wpc' = IF DefaultStageResult(written) = "written" THEN "complete"
                                                          ELSE "fail"
    /\ UNCHANGED <<i, attempt, result, procRunning, started, completeCalls,
                   launches, slept, failCalls>>
    /\ UNCHANGED <<storeVars, stopVars, envVars>>

\* execute_stage finds {stage}_pipeline.py: attempt 0 launches it at once
ExecuteStage ==
    /\ wpc = "exec"
    /\ WorkerIdle
    /\ attempt' = 0
    /\ launches' = 1
    /\ slept' = << >>
    /\ UNCHANGED outputs
    /\ outcome' = "none"
    /\ started' = Append(started, Stage)
    /\ procRunning' = TRUE
    /\ wpc' = "running"
    /\ UNCHANGED <<i, result, completeCalls, failCalls>>
    /\ UNCHANGED <<storeVars, stopVars, envVars>>

\* mutant of AfterAttempt: range(max_retries + 2), one attempt too many
AfterAttempt_OneMore(success) ==
    IF success THEN "complete"
    ELSE IF attempt <= config.max_retries THEN "backoff"
    ELSE "fail"

\* the retry loop of execute_stage after one attempt returned `success`
AfterAttempt(success) ==
    IF success THEN "complete"
    ELSE IF attempt < config.max_retries THEN "backoff"
    ELSE "fail"

\* mutant of AttemptEnds: TimeoutExpired is not caught in
\* _execute_pipeline_script and reaches execute_stage's handler, which
\* returns False at once
AttemptEnds_TimeoutRaises(o) ==
    /\ wpc = "running"
    /\ procRunning' = FALSE
    /\ outcome' = o
    /\ wpc' = IF o = "timeout" THEN "fail" ELSE AfterAttempt(o = "exit0")
    /\ UNCHANGED <<i, attempt, result, started, completeCalls, launches, slept, outputs,
                   failCalls>>
    /\ UNCHANGED <<storeVars, stopVars, envVars>>

\* _execute_pipeline_script returns: exit status 0, non-zero, or TimeoutExpired
AttemptEnds(o) ==
    /\ wpc = "running"
    /\ procRunning' = FALSE
    /\ outcome' = o
    /\ wpc' = AfterAttempt(o = "exit0")
    /\ UNCHANGED <<i, attempt, result, started, completeCalls, launches, slept, outputs,
                   failCalls>>
    /\ UNCHANGED <<storeVars, stopVars, envVars>>

\* mutant of BackoffDelay: the exponent counted from 0
BackoffDelay_FromZero(k) == 2 ^ (k - 1)

\* execute_stage, line 227: time.sleep(2 ** attempt)
BackoffDelay(k) == 2 ^ k

\* execute_stage, lines 224-231: the next iteration sleeps, then runs the script
RetryAttempt ==
    /\ wpc = "backoff"
    /\ attempt' = attempt + 1
    /\ launches' = launches + 1
    /\ slept' = Append(slept, BackoffDelay(attempt'))
    /\ UNCHANGED outputs
    /\ outcome' = "none"
    /\ procRunning' = TRUE
    /\ wpc' = "running"
    /\ UNCHANGED <<i, result, started, completeCalls, failCalls>>
    /\ UNCHANGED <<storeVars, stopVars, envVars>>

\* process_task, line 129
CompleteStageCall ==
    /\ wpc = "complete"
    /\ MutatorLoad("worker", OpCompleteStage(Stage))
    /\ completeCalls' = completeCalls \cup {Stage}
    /\ wpc' = "log_success"
    /\ attempt' = 0
    /\ launches' = 0
    /\ slept' = << >>
    /\ UNCHANGED outputs
    /\ outcome' = "none"
    /\ UNCHANGED <<i, result, procRunning, started, failCalls>>
    /\ UNCHANGED <<stopVars, envVars>>

\* process_task, lines 130-131, and the loop moves on
LogSuccess ==
    /\ wpc = "log_success"
    /\ MutatorLoad("worker", OpAddLog("success", Stage, "Completed stage successfully"))
    /\ i' = i + 1
    /\ wpc' = "loop"
    /\ UNCHANGED <<attempt, result, procRunning, started, completeCalls,
                   launches, slept, outputs, outcome, failCalls>>
    /\ UNCHANGED <<stopVars, envVars>>

\* process_task, lines 133-134
FailStageCall ==
    /\ wpc = "fail"
    /\ MutatorLoad("worker", OpFailStage(Stage, Msg("Stage failed", Stage)))
    /\ failCalls' = failCalls \cup {Stage}
    /\ wpc' = "log_error"
    /\ attempt' = 0
    /\ launches' = 0
    /\ slept' = << >>
    /\ UNCHANGED outputs
    /\ outcome' = "none"
    /\ UNCHANGED <<i, result, procRunning, started, completeCalls>>
    /\ UNCHANGED <<stopVars, envVars>>

\* process_task, lines 135-136
LogError ==
    /\ wpc = "log_error"
    /\ MutatorLoad("worker", OpAddLog("error", Stage, "Stage failed"))
    /\ wpc' = "after_fail"
    /\ UNCHANGED <<i, attempt, result, procRunning, started, completeCalls,
                   launches, slept, outputs, outcome, failCalls>>
    /\ UNCHANGED <<stopVars, envVars>>

\* mutant of StopsOnFailure: the test of line 138 inverted
StopsOnFailure_Inverted == config.pipeline_continue_on_failure

\* process_task, line 138: does a failed stage end the task?
StopsOnFailure == ~config.pipeline_continue_on_failure

\* process_task, lines 138-141: return False
AfterFailReturn ==
    /\ wpc = "after_fail"
    /\ WorkerIdle
    /\ StopsOnFailure
    /\ result' = "false"
    /\ wpc' = "done"
    /\ UNCHANGED <<i, attempt, procRunning, started, completeCalls, launches, slept, outputs, outcome,
                   failCalls>>
    /\ UNCHANGED <<storeVars, stopVars, envVars>>

\* process_task, line 138 with pipeline_continue_on_failure: next iteration
AfterFailContinue ==
    /\ wpc = "after_fail"
    /\ WorkerIdle
    /\ ~StopsOnFailure
    /\ i' = i + 1
    /\ wpc' = "loop"
    /\ UNCHANGED <<attempt, result, procRunning, started, completeCalls,
                   launches, slept, outputs, outcome, failCalls>>
    /\ UNCHANGED <<storeVars, stopVars, envVars>>

\* process_task, lines 143-149: after the loop, whatever ended it
Finish ==
    /\ wpc = "finish"
    /\ MutatorLoad("worker",
            OpUpdateStatus(COMPLETED, "Task execution completed successfully", Null))
    /\ wpc' = "returning"
    /\ UNCHANGED <<i, attempt, result, procRunning, started, completeCalls,
                   launches, slept, outputs, outcome, failCalls>>
    /\ UNCHANGED <<stopVars, envVars>>

\* process_task, line 160: return True
ReturnTrue ==
    /\ wpc = "returning"
    /\ WorkerIdle
    /\ result' = "true"
    /\ wpc' = "done"
    /\ UNCHANGED <<i, attempt, procRunning, started, completeCalls, launches, slept, outputs, outcome,
                   failCalls>>
    /\ UNCHANGED <<storeVars, stopVars, envVars>>

\* the worker is between initialize_state and the return of process_task
WorkerExecuting == wpc \notin {"start", "done"}

\* stop_task, lines 407-411: terminate() reaches a process only through
\* active_executions
Terminates == AdwId \in active_executions /\ procRunning

\* stop_task, lines 406-418: the terminate branch, then update_status(CANCELLED)
StopTask ==
    /\ spc = "idle"
    /\ termSent' = (termSent \/ Terminates)
    /\ stopSeen' = [called |-> TRUE, running |-> procRunning,
                    executing |-> WorkerExecuting, returned |-> FALSE,
                    value |-> "none"]
    /\ MutatorLoad("stopper",
            OpUpdateStatus(CANCELLED, "Task execution cancelled by user", Null))
    /\ spc' = "called"
    /\ UNCHANGED <<workerVars, envVars>>

\* a stop_task that hands the answer of update_status to its caller
StopTaskResult_Propagates(updated) == updated

\* stop_task, lines 414-420: the answer of update_status is dropped
StopTaskResult(updated) == "true"

\* stop_task, line 420: return True, whatever update_status returned
StopTaskReturn ==
    /\ spc = "called"
    /\ th["stopper"].pc = "idle"
    /\ spc' = "returned"
    /\ stopSeen' = [stopSeen EXCEPT !.returned = TRUE,
                                    !.value = StopTaskResult(th["stopper"].ret)]
    /\ UNCHANGED termSent
    /\ UNCHANGED <<storeVars, workerVars, envVars>>

\* TaskProcessor.shutdown: sets the event; active_executions holds no process
Shutdown ==
    /\ ~shutdown_event
    /\ shutdown_event' = TRUE
    /\ UNCHANGED <<task_data, config, active_executions, otherVars, extVars>>
    /\ UNCHANGED <<storeVars, workerVars, stopVars>>

\* a thread inside save_state takes its next step
Save ==
    /\ \E t \in Threads : SaveOpen(t) \/ SaveWrite(t)
    /\ UNCHANGED <<workerVars, stopVars, envVars>>

NoStop == [called |-> FALSE, running |-> FALSE, executing |-> FALSE,
           returned |-> FALSE, value |-> "none"]

NotLoaded == [kind |-> "unset"]
TaskIds == {"adw_a", "adw_b"}

\* TaskProcessor.__init__: an empty queue, no worker thread started
InitQueueVars ==
    /\ execution_queue = {}
    /\ wk = << >>
    /\ direct = [pc |-> "idle", task |-> 0]
    /\ tstatus = << >>

\* an empty adws_dir, monitor_file_triggers not yet polling
InitWatchVars ==
    /\ dir = [n \in {} |-> Null]
    /\ processed_triggers = {}
    /\ scan = Null

\* no task has a state, a directory or a worktree
InitTreeVars == trees = << >>

\* no StateManager.cleanup_completed_tasks call is looked at
InitCleanVars ==
    /\ agents = << >>
    /\ archived = << >>
    /\ clock = 0
    /\ lastCleanup = Null

\* the threads that call save_state for one task: the worker thread, the
\* caller of stop_task and the caller of execute_task
LockThreads == {"worker", "stopper", "direct"}

\* StateManager.__init__, line 81: self._locks = {}
InitLockVars ==
    /\ locks = 0
    /\ lk = [t \in LockThreads |-> [pc |-> "idle", lock |-> 0]]
    /\ made = 0

InitExt ==
    /\ InitQueueVars
    /\ InitWatchVars
    /\ InitTreeVars
    /\ InitCleanVars
    /\ InitLockVars

\* the variables of the other specifications, at rest
InitOther ==
    /\ InitExt
    /\ base = Null
    /\ loaded = NotLoaded
    /\ crashed = FALSE
    /\ pyhash = [t \in TaskIds |-> 0]
    /\ adws = [t \in TaskIds |-> Null]

\* TaskProcessor.__init__, and a task handed to process_task
InitProcessor ==
    /\ wpc = "start"
    /\ i = 0
    /\ attempt = 0
    /\ result = "none"
    /\ procRunning = FALSE
    /\ shutdown_event = FALSE
    /\ active_executions = {}
    /\ spc = "idle"
    /\ started = << >>
    /\ completeCalls = {}
    /\ launches = 0
    /\ slept = << >>
    /\ outputs = {}
    /\ outcome = "none"
    /\ failCalls = {}
    /\ termSent = FALSE
    /\ stopSeen = NoStop

Init ==
    /\ file = NoFile
    /\ lock = None
    /\ th = [t \in Threads |-> IdleFrame]
    /\ last = Null
    /\ task_data \in { [adw_id |-> AdwId, stages |-> s] : s \in StageLists }
    /\ config \in { [pipeline_continue_on_failure |-> c, max_retries |-> r] :
                        c \in BOOLEAN, r \in 0..MaxRetries }
    /\ InitProcessor
    /\ InitOther

Next ==
    \/ ProcessTaskStart
    \/ WorkflowLoggerRaises
    \/ ExceptHandler
    \/ ExceptReturn
    \/ SetExecuting
    \/ LoopExit
    \/ LoopShutdownBreak
    \/ StageBegin
    \/ LogStart
    \/ ExecuteDefaultStage
    \/ \E written \in BOOLEAN : DefaultStageEnds(written)
    \/ ExecuteStage
    \/ \E o \in {"exit0", "nonzero", "timeout"} : AttemptEnds(o)
    \/ RetryAttempt
    \/ CompleteStageCall
    \/ LogSuccess
    \/ FailStageCall
    \/ LogError
    \/ AfterFailReturn
    \/ AfterFailContinue
    \/ Finish
    \/ ReturnTrue
    \/ StopTask
    \/ StopTaskReturn
    \/ Shutdown
    \/ Save

Spec == Init /\ [][Next]_vars

\* ------------------------------------------------------------- SpecStore
\* Two threads call one StateManager mutator each on the same adw_id while an
\* observer calls load_state; a save can fail, and the process can be killed.

StoreTask == [adw_id |-> AdwId, stages |-> SubSeq(StageNames, 1, 2)]

\* records process_task leaves on disk while the first stage runs
Rec0 == UpdateStatus(StateData(StoreTask), EXECUTING,
                     "Processing task through stages", Null)
Rec1 == AddLog(UpdateStage(Rec0, "plan", Progress(0, 2)),
               "info", "plan", "Starting stage")
Rec2 == UpdateStage(AddLog(CompleteStage(Rec1, "plan"), "success", "plan",
                           "Completed stage successfully"),
                    "implement", Progress(100, 2))
BaseRecords == {Rec0, Rec1, Rec2}

\* the mutators process_task calls, and the one stop_task calls
StoreOps(t) ==
    IF t = "worker"
    THEN { OpUpdateStage("implement", Progress(100, 2)),
           OpCompleteStage("plan"),
           OpFailStage("plan", Msg("Stage failed", "plan")),
           OpAddLog("info", "plan", "Starting stage") }
    ELSE { OpUpdateStatus(CANCELLED, "Task execution cancelled by user", Null) }

NotCalled(t) == th[t].pc = "idle" /\ th[t].ret = "none"
Returned(t) == th[t].pc = "idle" /\ th[t].ret # "none"

\* a thread calls its mutator
StoreCall ==
    /\ \E t \in Threads : \E op \in StoreOps(t) :
            NotCalled(t) /\ MutatorLoad(t, op)
    /\ UNCHANGED <<workerVars, stopVars, envVars>>

\* save_state, lines 149-152, 161: mkdir or open raises; caught, return False
SaveOpenFails ==
    /\ \E t \in Threads :
        /\ th[t].pc = "save"
        /\ lock = None
        /\ th' = [th EXCEPT ![t].pc = "idle", ![t].ret = "false"]
    /\ UNCHANGED <<file, lock, last>>
    /\ UNCHANGED <<workerVars, stopVars, envVars>>

\* save_state, lines 161-168: json.dump raises after the file was truncated
SaveWriteFails ==
    /\ \E t \in Threads :
        /\ th[t].pc = "write"
        /\ lock = t
        /\ th' = [th EXCEPT ![t].pc = "idle", ![t].ret = "false"]
    /\ lock' = None
    /\ UNCHANGED <<file, last>>
    /\ UNCHANGED <<workerVars, stopVars, envVars>>

DeadFrame == [pc |-> "dead", op |-> NoOp, st |-> Null, ret |-> "none"]

\* the process is killed while a thread is between open(..., 'w') and close
Crash ==
    /\ ~crashed
    /\ \E t \in Threads : th[t].pc = "write"
    /\ crashed' = TRUE
    /\ th' = [t \in Threads |-> DeadFrame]
    /\ lock' = None
    /\ UNCHANGED <<file, last, base, loaded, pyhash, adws, extVars>>
    /\ UNCHANGED <<workerVars, stopVars, task_data, config, shutdown_event,
                   active_executions>>

\* an observer (get_status_summary, or a new process) calls load_state
ObserverLoad ==
    /\ loaded' = LoadState(file)
    /\ loaded' # loaded
    /\ UNCHANGED <<base, crashed, pyhash, adws, extVars>>
    /\ UNCHANGED <<storeVars, workerVars, stopVars, task_data, config,
                   shutdown_event, active_executions>>

InitStore ==
    /\ InitExt
    /\ base \in BaseRecords
    /\ file = base
    /\ last = base
    /\ lock = None
    /\ th = [t \in Threads |-> IdleFrame]
    /\ task_data = StoreTask
    /\ config = [pipeline_continue_on_failure |-> FALSE, max_retries |-> 0]
    /\ InitProcessor
    /\ loaded = NotLoaded
    /\ crashed = FALSE
    /\ pyhash = [t \in TaskIds |-> 0]
    /\ adws = [t \in TaskIds |-> Null]

NextStore ==
    \/ StoreCall
    \/ Save
    \/ SaveOpenFails
    \/ SaveWriteFails
    \/ Crash
    \/ ObserverLoad

SpecStore == InitStore /\ [][NextStore]_vars

\* ------------------------------------------------------------- SpecPorts
\* ADWState: several adw_ids are initialized in one interpreter, whose str
\* hash is salted per process: any value per adw_id, different ids hashing
\* to different values, fixed while the process runs.

RangeWidth == 15
BackendBase == 9100
FrontendBase == 9200

HashValues == (0 - MaxHash)..MaxHash

Abs(x) == IF x < 0 THEN 0 - x ELSE x

\* mutant of AllocatePorts: the offset taken modulo 16
AllocatePorts_OneSlotMore(adw_id) ==
    LET hash_value == Abs(pyhash[adw_id]) % (RangeWidth + 1)
    IN  [backend_port |-> BackendBase + hash_value,
         frontend_port |-> FrontendBase + hash_value]

\* allocate_ports: abs(hash(adw_id)) % 15 added to both range bases
AllocatePorts(adw_id) ==
    LET hash_value == Abs(pyhash[adw_id]) % RangeWidth
    IN  [backend_port |-> BackendBase + hash_value,
         frontend_port |-> FrontendBase + hash_value]

\* initialize_state, lines 322-327: all_adws of the new record, whose default
\* is the empty list; existing_state is what load_state returned
TrackAllAdws(existing_state, adw_id) ==
    IF existing_state # Null /\ ~Contains(existing_state.all_adws, adw_id)
    THEN Append(existing_state.all_adws, adw_id)
    ELSE IF existing_state = Null
    THEN <<adw_id>>
    ELSE << >>

\* ADWState.initialize_state: ports, then the record is built and saved
InitializeState(adw_id) ==
    /\ adws' = [adws EXCEPT ![adw_id] =
                    [backend_port |-> AllocatePorts(adw_id).backend_port,
                     frontend_port |-> AllocatePorts(adw_id).frontend_port,
                     workflow_status |-> INITIALIZED,
                     completed_phases |-> << >>,
                     failed_phases |-> << >>,
                     all_adws |-> TrackAllAdws(adws[adw_id], adw_id)]]
    /\ adws'[adw_id] # adws[adw_id]
    /\ UNCHANGED <<base, loaded, crashed, pyhash, extVars>>
    /\ UNCHANGED <<storeVars, workerVars, stopVars, task_data, config,
                   shutdown_event, active_executions>>

\* ADWState.update_phase(adw_id, phase, status)
UpdatePhase(adw_id, status) ==
    /\ adws[adw_id] # Null
    /\ adws[adw_id].workflow_status # status
    /\ adws' = [adws EXCEPT ![adw_id].workflow_status = status]
    /\ UNCHANGED <<base, loaded, crashed, pyhash, extVars>>
    /\ UNCHANGED <<storeVars, workerVars, stopVars, task_data, config,
                   shutdown_event, active_executions>>

\* WorkflowPhase values used by the runs
Phases == {"plan", "build"}

\* the record complete_phase saves: the phase is appended to
\* completed_phases when absent and removed from failed_phases
CompletePhaseRecord(state, phase) ==
    [state EXCEPT
        !.completed_phases = IF Contains(@, phase) THEN @ ELSE Append(@, phase),
        !.failed_phases = IF Contains(@, phase) THEN Remove(@, phase) ELSE @]

\* a fail_phase that also takes the phase out of completed_phases
FailPhaseRecord_Removes(state, phase) ==
    [state EXCEPT
        !.failed_phases = IF Contains(@, phase) THEN @ ELSE Append(@, phase),
        !.completed_phases = Remove(@, phase),
        !.workflow_status = FAILED]

\* the record fail_phase saves: the phase is appended to failed_phases when
\* absent, the status becomes failed; completed_phases is not touched
FailPhaseRecord(state, phase) ==
    [state EXCEPT
        !.failed_phases = IF Contains(@, phase) THEN @ ELSE Append(@, phase),
        !.workflow_status = FAILED]

\* ADWState.complete_phase
CompletePhase(adw_id, phase) ==
    /\ adws[adw_id] # Null
    /\ adws' = [adws EXCEPT ![adw_id] = CompletePhaseRecord(@, phase)]
    /\ adws'[adw_id] # adws[adw_id]
    /\ UNCHANGED <<base, loaded, crashed, pyhash, extVars>>
    /\ UNCHANGED <<storeVars, workerVars, stopVars, task_data, config,
                   shutdown_event, active_executions>>

\* ADWState.fail_phase
FailPhase(adw_id, phase) ==
    /\ adws[adw_id] # Null
    /\ adws' = [adws EXCEPT ![adw_id] = FailPhaseRecord(@, phase)]
    /\ adws'[adw_id] # adws[adw_id]
    /\ UNCHANGED <<base, loaded, crashed, pyhash, extVars>>
    /\ UNCHANGED <<storeVars, workerVars, stopVars, task_data, config,
                   shutdown_event, active_executions>>

InitPorts ==
    /\ InitExt
    /\ pyhash \in { h \in [TaskIds -> HashValues] :
                        \A a \in TaskIds : \A b \in TaskIds : a # b => h[a] # h[b] }
    /\ adws = [t \in TaskIds |-> Null]
    /\ base = Null
    /\ loaded = NotLoaded
    /\ crashed = FALSE
    /\ file = NoFile
    /\ last = Null
    /\ lock = None
    /\ th = [t \in Threads |-> IdleFrame]
    /\ task_data = StoreTask
    /\ config = [pipeline_continue_on_failure |-> FALSE, max_retries |-> 0]
    /\ InitProcessor

NextPorts ==
    \/ \E t \in TaskIds : InitializeState(t)
    \/ \E t \in TaskIds : \E st \in {EXECUTING, COMPLETED} : UpdatePhase(t, st)
    \/ \E t \in TaskIds : FailPhase(t, "plan")

SpecPorts == InitPorts /\ [][NextPorts]_vars

\* ------------------------------------------------------------ SpecPhases
\* Two tasks under one ADWState, their phases completed and failed in any
\* order; the hash values are fixed, the ports play no part here.

InitPhases ==
    /\ InitPorts
    /\ pyhash = [t \in TaskIds |-> IF t = "adw_a" THEN 1 ELSE 2]

NextPhases ==
    \/ \E t \in TaskIds : InitializeState(t)
    \/ \E t \in TaskIds : \E phase \in Phases : CompletePhase(t, phase)
    \/ \E t \in TaskIds : \E phase \in Phases : FailPhase(t, phase)

SpecPhases == InitPhases /\ [][NextPhases]_vars

\* ------------------------------------------------------------- SpecPool
\* One more task than the range has pairs: the tasks are initialized one
\* after the other and stay live; the first RangeWidth of them hash to
\* RangeWidth different offsets, so that they fill the range.

PoolIds == 1..(RangeWidth + 1)

\* hash values of the pool's ids: a rotation of the offsets, of either
\* sign, for the first RangeWidth ids and any other value for the last
PoolHashes ==
    { [k \in PoolIds |->
            IF k <= RangeWidth THEN sgn * ((k - 1 + r) % RangeWidth) ELSE h] :
        r \in 0..(RangeWidth - 1), sgn \in {1, 0 - 1},
        h \in { x \in HashValues : Abs(x) >= RangeWidth } }

\* the next task of the pool is initialized
PoolInitialize ==
    \E t \in PoolIds :
        /\ adws[t] = Null
        /\ \A u \in PoolIds : u < t => adws[u] # Null
        /\ InitializeState(t)

InitPool ==
    /\ InitExt
    /\ pyhash \in PoolHashes
    /\ adws = [t \in PoolIds |-> Null]
    /\ base = Null
    /\ loaded = NotLoaded
    /\ crashed = FALSE
    /\ file = NoFile
    /\ last = Null
    /\ lock = None
    /\ th = [t \in Threads |-> IdleFrame]
    /\ task_data = StoreTask
    /\ config = [pipeline_continue_on_failure |-> FALSE, max_retries |-> 0]
    /\ InitProcessor

NextPool == PoolInitialize

SpecPool == InitPool /\ [][NextPool]_vars

\* ------------------------------------------------------------- SpecRestart
\* One adw_id is initialized again and again, in the running interpreter and
\* in the ones started after it: str hashes are salted anew per interpreter.

RestartIds == {"adw_a"}

\* the orchestrator process ends and a new one is started
Restart ==
    /\ pyhash' \in [RestartIds -> HashValues]
    /\ pyhash' # pyhash
    /\ UNCHANGED <<base, loaded, crashed, adws, extVars>>
    /\ UNCHANGED <<storeVars, workerVars, stopVars, task_data, config,
                   shutdown_event, active_executions>>

InitRestart ==
    /\ InitExt
    /\ pyhash \in [RestartIds -> HashValues]
    /\ adws = [t \in RestartIds |-> Null]
    /\ base = Null
    /\ loaded = NotLoaded
    /\ crashed = FALSE
    /\ file = NoFile
    /\ last = Null
    /\ lock = None
    /\ th = [t \in Threads |-> IdleFrame]
    /\ task_data = StoreTask
    /\ config = [pipeline_continue_on_failure |-> FALSE, max_retries |-> 0]
    /\ InitProcessor

NextRestart ==
    \/ \E t \in RestartIds : InitializeState(t)
    \/ Restart

SpecRestart == InitRestart /\ [][NextRestart]_vars

\* ------------------------------------------------------------- SpecQueue
\* The priority queue and the worker pool of TaskProcessor, with
\* ADWOrchestrator.execute_task running a task on the main thread.
\* process_task is taken as a whole here: it ends, having recorded a
\* completed or a failed status.

QTasks == 1..MaxTasks
Workers == 1..MaxWorkers

TaskPriority == [LOW |-> 1, MEDIUM |-> 2, HIGH |-> 3, URGENT |-> 4]
Priorities == { TaskPriority.LOW, TaskPriority.MEDIUM, TaskPriority.HIGH,
                TaskPriority.URGENT }

\* readings of datetime.now(): naive local time, which an adjustment of the
\* clock or the end of daylight saving time sets back
TimeStamps == 1..MaxTasks

\* the core variables, at rest
InitCore ==
    /\ file = NoFile
    /\ last = Null
    /\ lock = None
    /\ th = [t \in Threads |-> IdleFrame]
    /\ task_data = StoreTask
    /\ config = [pipeline_continue_on_failure |-> FALSE, max_retries |-> 0]
    /\ InitProcessor
    /\ base = Null
    /\ loaded = NotLoaded
    /\ crashed = FALSE
    /\ pyhash = [t \in TaskIds |-> 0]
    /\ adws = [t \in TaskIds |-> Null]

\* tuple comparison of two queue items (priority_value, queued_at, task_data)
\* that differ in priority_value or queued_at
ItemLess(a, b) == a[1] < b[1] \/ (a[1] = b[1] /\ a[2] < b[2])

\* PriorityQueue.get: the least item
QueueGet ==
    CHOOSE e \in execution_queue :
        \A f \in execution_queue \ {e} : ItemLess(e, f)

\* queue_task_execution / queue_task: put((-priority.value, now, task_data));
\* tasks are numbered in the order of their submission
QueueTask(t, priority, now) ==
    /\ tstatus[t] = "new"
    /\ \A u \in QTasks : u < t => tstatus[u] # "new"
    /\ \A f \in execution_queue : f[2] # now
    /\ execution_queue' = execution_queue \cup {<<0 - priority, now, t>>}
    /\ tstatus' = [tstatus EXCEPT ![t] = "queued"]
    /\ UNCHANGED <<wk, direct, watchVars, treeVars, cleanVars,
                   lockVars>>
    /\ UNCHANGED <<storeVars, workerVars, stopVars, task_data, config,
                   shutdown_event, active_executions, otherVars>>

\* _worker_loop, lines 363-375: the loop test, get, and process_task begins
WorkerGet(w) ==
    /\ wk[w].pc = "get"
    /\ ~shutdown_event
    /\ execution_queue # {}
    /\ execution_queue' = execution_queue \ {QueueGet}
    /\ wk' = [wk EXCEPT ![w] = [pc |-> "process", task |-> QueueGet[3]]]
    /\ tstatus' = [tstatus EXCEPT ![QueueGet[3]] = "processing"]
    /\ UNCHANGED <<direct, watchVars, treeVars, cleanVars,
                   lockVars>>
    /\ UNCHANGED <<storeVars, workerVars, stopVars, task_data, config,
                   shutdown_event, active_executions, otherVars>>

\* _worker_loop, line 363: the loop ends when shutdown_event is set
WorkerExit(w) ==
    /\ wk[w].pc = "get"
    /\ shutdown_event
    /\ wk' = [wk EXCEPT ![w].pc = "exited"]
    /\ UNCHANGED <<execution_queue, direct, tstatus, watchVars, treeVars, cleanVars,
                   lockVars>>
    /\ UNCHANGED <<storeVars, workerVars, stopVars, task_data, config,
                   shutdown_event, active_executions, otherVars>>

\* what process_task leaves as the task's status
TaskResult(r) == IF r = "completed" THEN "completed" ELSE "failed"

\* mutant of AfterTask: a failed task ends the worker thread
AfterTask_DiesOnFailure(success) == IF success THEN "get" ELSE "exited"

\* _worker_loop, lines 375-386: whatever process_task returned, and when an
\* exception was caught, the loop goes on
AfterTask(success) == "get"

\* process_task returns in a worker: all stages done, a stage failed
\* terminally, or an exception was caught inside process_task
ProcessTaskEnds(w, r) ==
    /\ wk[w].pc = "process"
    /\ tstatus' = [tstatus EXCEPT ![wk[w].task] = TaskResult(r)]
    /\ wk' = [wk EXCEPT ![w] = [pc |-> AfterTask(r = "completed"), task |-> 0]]
    /\ UNCHANGED <<execution_queue, direct, watchVars, treeVars, cleanVars,
                   lockVars>>
    /\ UNCHANGED <<storeVars, workerVars, stopVars, task_data, config,
                   shutdown_event, active_executions, otherVars>>

\* ADWOrchestrator.execute_task, called by main() in single-task mode:
\* process_task runs on the calling thread, the queue is not used
ExecuteTask(t) ==
    /\ direct.pc = "idle"
    /\ tstatus[t] = "new"
    /\ \A u \in QTasks : u < t => tstatus[u] # "new"
    /\ direct' = [pc |-> "running", task |-> t]
    /\ tstatus' = [tstatus EXCEPT ![t] = "processing"]
    /\ UNCHANGED <<execution_queue, wk, watchVars, treeVars, cleanVars,
                   lockVars>>
    /\ UNCHANGED <<storeVars, workerVars, stopVars, task_data, config,
                   shutdown_event, active_executions, otherVars>>

\* execute_task, lines 236-247: process_task returned
ExecuteTaskEnds(r) ==
    /\ direct.pc = "running"
    /\ tstatus' = [tstatus EXCEPT ![direct.task] = TaskResult(r)]
    /\ direct' = [direct EXCEPT !.pc = "returned"]
    /\ UNCHANGED <<execution_queue, wk, watchVars, treeVars, cleanVars,
                   lockVars>>
    /\ UNCHANGED <<storeVars, workerVars, stopVars, task_data, config,
                   shutdown_event, active_executions, otherVars>>

TaskOutcomes == {"completed", "stage_failed", "exception"}

\* a step of a worker thread that is not at rest
WorkerNext ==
    \E w \in Workers :
        \/ WorkerGet(w)
        \/ WorkerExit(w)
        \/ \E r \in TaskOutcomes : ProcessTaskEnds(w, r)

InitQueue ==
    /\ InitCore
    /\ InitWatchVars
    /\ InitTreeVars
    /\ InitCleanVars
    /\ InitLockVars
    /\ execution_queue = {}
    /\ wk \in { [w \in Workers |->
                    [pc |-> IF w <= n THEN "get" ELSE "off", task |-> 0]] :
                 n \in 1..MaxWorkers }
    /\ direct = [pc |-> "idle", task |-> 0]
    /\ tstatus = [t \in QTasks |-> "new"]

NextQueue ==
    \/ \E t \in QTasks : \E p \in Priorities : \E now \in TimeStamps :
            QueueTask(t, p, now)
    \/ WorkerNext
    \/ \E t \in QTasks : ExecuteTask(t)
    \/ \E r \in TaskOutcomes : ExecuteTaskEnds(r)
    \/ Shutdown

SpecQueue == InitQueue /\ [][NextQueue]_vars

\* the worker threads are scheduled
SpecQueueLive == SpecQueue /\ WF_vars(WorkerNext)

\* ------------------------------------------------------------- SpecWatch
\* ADWOrchestrator.monitor_file_triggers polling adws_dir while trigger
\* files are put there. A trigger file is a record of what its task_file
\* is and of how often it was submitted.

TriggerNames == {"trigger_a.json", "trigger_b.json"}

\* the task_file a trigger refers to: not there; there but not JSON (or
\* empty); a dict that TaskData(**dict) accepts; a dict that it rejects
TaskFiles == {"missing", "unreadable", "valid", "mismatch"}

\* a trigger file is written into adws_dir under a name that is free
PlaceTrigger(name, task) ==
    /\ dir[name] = Null
    /\ dir' = [dir EXCEPT ![name] = [task |-> task, submits |-> 0]]
    /\ UNCHANGED <<processed_triggers, scan, queueVars, treeVars, cleanVars,
                   lockVars>>
    /\ UNCHANGED <<storeVars, workerVars, stopVars, task_data, config,
                   shutdown_event, active_executions, otherVars>>

\* monitor_file_triggers, line 161: glob("trigger_*.json") of one poll
Glob ==
    /\ scan = Null
    /\ scan' = [todo |-> { n \in TriggerNames : dir[n] # Null }]
    /\ UNCHANGED <<dir, processed_triggers, queueVars, treeVars, cleanVars,
                   lockVars>>
    /\ UNCHANGED <<storeVars, workerVars, stopVars, task_data, config,
                   shutdown_event, active_executions, otherVars>>

\* mutant of AlreadyProcessed: no name is ever skipped
AlreadyProcessed_Never(name) == FALSE

\* monitor_file_triggers, lines 162-163
AlreadyProcessed(name) == name \in processed_triggers

\* lines 162-163 and 173, 192: the file is skipped, its task_file does not
\* exist, or TaskData(**task_data_dict) raises: nothing changes
VisitNoEffect(name) ==
    /\ scan # Null
    /\ name \in scan.todo
    /\ \/ AlreadyProcessed(name)
       \/ dir[name].task \in {"missing", "mismatch"}
    /\ scan' = [todo |-> scan.todo \ {name}]
    /\ UNCHANGED <<dir, processed_triggers, queueVars, treeVars, cleanVars,
                   lockVars>>
    /\ UNCHANGED <<storeVars, workerVars, stopVars, task_data, config,
                   shutdown_event, active_executions, otherVars>>

\* lines 173-190: the task_file exists; queue_task_execution if it could be
\* read; the name is marked processed; unlink, which may raise OSError
VisitProcess(name, unlinked) ==
    /\ scan # Null
    /\ name \in scan.todo
    /\ ~AlreadyProcessed(name)
    /\ dir[name].task \in {"unreadable", "valid"}
    /\ processed_triggers' = processed_triggers \cup {name}
    /\ dir' = [dir EXCEPT ![name] =
                IF unlinked THEN Null
                ELSE IF @.task = "valid"
                     THEN [@ EXCEPT !.submits = @ + 1] ELSE @]
    /\ scan' = [todo |-> scan.todo \ {name}]
    /\ UNCHANGED <<queueVars, treeVars, cleanVars,
                   lockVars>>
    /\ UNCHANGED <<storeVars, workerVars, stopVars, task_data, config,
                   shutdown_event, active_executions, otherVars>>

\* line 195: the for loop is exhausted, sleep(2)
EndPoll ==
    /\ scan # Null
    /\ scan.todo = {}
    /\ scan' = Null
    /\ UNCHANGED <<dir, processed_triggers, queueVars, treeVars, cleanVars,
                   lockVars>>
    /\ UNCHANGED <<storeVars, workerVars, stopVars, task_data, config,
                   shutdown_event, active_executions, otherVars>>

\* a step of the watcher thread
WatcherNext ==
    \/ Glob
    \/ \E n \in TriggerNames : VisitNoEffect(n)
    \/ \E n \in TriggerNames : \E unlinked \in BOOLEAN : VisitProcess(n, unlinked)
    \/ EndPoll

InitWatch ==
    /\ InitCore
    /\ InitQueueVars
    /\ InitTreeVars
    /\ InitCleanVars
    /\ InitLockVars
    /\ dir = [n \in TriggerNames |-> Null]
    /\ processed_triggers = {}
    /\ scan = Null

NextWatch ==
    \/ \E n \in TriggerNames : \E task \in TaskFiles : PlaceTrigger(n, task)
    \/ WatcherNext

SpecWatch == InitWatch /\ [][NextWatch]_vars

\* the watcher thread keeps running
SpecWatchLive == SpecWatch /\ WF_vars(WatcherNext)

\* ------------------------------------------------------------- SpecTree
\* ADWState.initialize_state and validate_worktree with
\* WorktreeOperations.create_worktree and remove_worktree, for adw_ids one of
\* which begins like another. Ids and paths are sequences of characters.

TreeIds == { <<"1">>, <<"1", "2">>, <<"3">> }

\* str(trees_dir), shortened
TreesDir == <<"t", "/">>

\* get_worktree_path: trees/{adw_id}
GetWorktreePath(adw_id) == TreesDir \o adw_id

NoTree == [phase |-> "none", dir |-> "none", registered |-> FALSE,
           branch |-> FALSE, ports_env |-> Null, stuck |-> FALSE,
           result |-> [success |-> FALSE, error |-> ""]]

\* the paths in the output of `git worktree list`, one per line
WorktreeList ==
    { GetWorktreePath(u) : u \in { v \in TreeIds : trees[v].registered } }

\* Python's `p in text` for two strings
InText(p, text) ==
    \E k \in 1..(Len(text) - Len(p) + 1) : SubSeq(text, k, k + Len(p) - 1) = p

\* ADWState.validate_worktree
ValidateWorktree(adw_id) ==
    LET state_has_path == trees[adw_id].phase # "none"
        directory_exists == state_has_path /\ trees[adw_id].dir # "none"
        git_recognizes ==
            /\ directory_exists
            /\ \E line \in WorktreeList : InText(GetWorktreePath(adw_id), line)
    IN  [ state_has_path |-> state_has_path,
          directory_exists |-> directory_exists,
          git_recognizes |-> git_recognizes,
          valid |-> state_has_path /\ directory_exists /\ git_recognizes ]

\* the key=value lines create_ports_env writes to .ports.env
PortsEnv(adw_id, backend_port, frontend_port) ==
    [ BACKEND_PORT |-> backend_port,
      FRONTEND_PORT |-> frontend_port,
      VITE_BACKEND_URL |-> backend_port,
      ADW_ID |-> adw_id ]

\* ADWState.create_ports_env: the directory is made if it is missing and
\* .ports.env is written; a failure of the write is caught and False returned
CreatePortsEnv(rec, adw_id, ports, written) ==
    [rec EXCEPT !.dir = IF @ = "none" THEN "dir" ELSE @,
                !.ports_env = IF written
                              THEN PortsEnv(adw_id, ports.backend_port,
                                            ports.frontend_port)
                              ELSE @]

\* ADWState.initialize_state: the record holds worktree_path, and
\* create_ports_env makes the directory trees/{adw_id} if it is missing
TreeInitializeState(t, written) ==
    /\ trees[t].phase = "none"
    /\ trees' = [trees EXCEPT ![t] =
            [CreatePortsEnv(@, t, AllocatePorts(t), written)
                EXCEPT !.phase = "initialized"]]
    /\ UNCHANGED <<queueVars, watchVars, cleanVars,
                   lockVars>>
    /\ UNCHANGED <<storeVars, workerVars, stopVars, task_data, config,
                   shutdown_event, active_executions, otherVars>>

\* what remove_worktree leaves: `git worktree remove --force` removes a
\* registered worktree; when it fails the directory is deleted by
\* rmtree(ignore_errors=True), which may leave it (deleted = FALSE)
RemoveResult(rec, deleted) ==
    IF rec.dir = "none" THEN rec
    ELSE IF rec.registered /\ rec.dir = "worktree"
         THEN [rec EXCEPT !.dir = "none", !.registered = FALSE,
                          !.ports_env = Null, !.stuck = FALSE]
    ELSE IF deleted
         THEN [rec EXCEPT !.dir = "none", !.ports_env = Null, !.stuck = FALSE]
         ELSE [rec EXCEPT !.stuck = TRUE]

\* what the environment lets `git worktree add` do
GitAnswers == {"ok", "no_base", "hook_fails"}

\* stderr of `git worktree add -b branch path origin/base` ("" on exit 0)
GitWorktreeAdd(rec, git) ==
    IF rec.dir # "none" THEN "already exists"
    ELSE IF rec.registered THEN "already registered"
    ELSE IF rec.branch THEN "a branch named already exists"
    ELSE IF git = "no_base" THEN "invalid reference"
    ELSE IF git = "hook_fails" THEN "post-checkout hook failed"
    ELSE ""

\* what `git worktree add` leaves at the path: nothing when it refuses, the
\* registered worktree on its branch when it checked out (a post-checkout
\* hook that fails makes the exit status non-zero after the checkout)
AfterGitAdd(rec, stderr) ==
    IF stderr \in {"", "post-checkout hook failed"}
    THEN [rec EXCEPT !.dir = "worktree", !.registered = TRUE,
                     !.branch = TRUE, !.ports_env = Null]
    ELSE rec

\* the except branch of create_worktree, without the cleanup
ExceptCleanup_Skipped(rec, deleted) == rec

\* the except branch of create_worktree: remove_worktree if the path exists
ExceptCleanup(rec, deleted) ==
    IF rec.dir # "none" THEN RemoveResult(rec, deleted) ELSE rec

\* create_worktree: an existing path is removed, then
\* `git worktree add -b branch path origin/base`; on exit 0 .ports.env is
\* written (a failed write only logs a warning) and success is returned;
\* otherwise the except branch cleans up and returns the error
CreateWorktree(t, git, deleted, written) ==
    /\ trees[t].phase # "none"
    /\ LET cleared == IF trees[t].dir # "none"
                      THEN RemoveResult(trees[t], deleted) ELSE trees[t]
           stderr == GitWorktreeAdd(cleared, git)
           added == AfterGitAdd(cleared, stderr)
       IN  trees' = [trees EXCEPT ![t] =
                IF stderr = ""
                THEN [CreatePortsEnv(added, t, AllocatePorts(t), written)
                        EXCEPT !.phase = "created",
                               !.result = [success |-> TRUE, error |-> ""]]
                ELSE [ExceptCleanup(added, deleted)
                        EXCEPT !.phase = "create_failed",
                               !.result = [success |-> FALSE,
                                           error |-> stderr]]]
    /\ UNCHANGED <<queueVars, watchVars, cleanVars,
                   lockVars>>
    /\ UNCHANGED <<storeVars, workerVars, stopVars, task_data, config,
                   shutdown_event, active_executions, otherVars>>

\* remove_worktree
RemoveWorktree(t, deleted) ==
    /\ trees[t].phase # "none"
    /\ trees' = [trees EXCEPT ![t] =
            [RemoveResult(@, deleted) EXCEPT !.phase = "removed"]]
    /\ UNCHANGED <<queueVars, watchVars, cleanVars,
                   lockVars>>
    /\ UNCHANGED <<storeVars, workerVars, stopVars, task_data, config,
                   shutdown_event, active_executions, otherVars>>

\* hash(adw_id) in the running interpreter, for two of its salts
TreeHashes == { [t \in TreeIds |-> Len(t)], [t \in TreeIds |-> 0 - (3 * Len(t))] }

InitTree ==
    /\ file = NoFile
    /\ last = Null
    /\ lock = None
    /\ th = [t \in Threads |-> IdleFrame]
    /\ task_data = StoreTask
    /\ config = [pipeline_continue_on_failure |-> FALSE, max_retries |-> 0]
    /\ InitProcessor
    /\ base = Null
    /\ loaded = NotLoaded
    /\ crashed = FALSE
    /\ pyhash \in TreeHashes
    /\ adws = [t \in TaskIds |-> Null]
    /\ InitQueueVars
    /\ InitWatchVars
    /\ InitCleanVars
    /\ InitLockVars
    /\ trees = [t \in TreeIds |-> NoTree]

NextTree ==
    \/ \E t \in TreeIds : \E written \in BOOLEAN : TreeInitializeState(t, written)
    \/ \E t \in TreeIds : \E git \in GitAnswers : \E deleted, written \in BOOLEAN :
            CreateWorktree(t, git, deleted, written)
    \/ \E t \in TreeIds : \E deleted \in BOOLEAN : RemoveWorktree(t, deleted)

SpecTree == InitTree /\ [][NextTree]_vars

\* ------------------------------------------------------------- SpecProgress
\* process_task alone on one task of no, two or three stages: nobody calls
\* stop_task or shutdown.

InitProgress ==
    /\ file = NoFile
    /\ lock = None
    /\ th = [t \in Threads |-> IdleFrame]
    /\ last = Null
    /\ task_data \in { [adw_id |-> AdwId, stages |-> SubSeq(StageNames, 1, n)] :
                            n \in {0, 2, 3} }
    /\ config \in { [pipeline_continue_on_failure |-> c, max_retries |-> r] :
                        c \in BOOLEAN, r \in 0..1 }
    /\ InitProcessor
    /\ InitOther

NextProgress ==
    \/ ProcessTaskStart
    \/ WorkflowLoggerRaises
    \/ ExceptHandler
    \/ ExceptReturn
    \/ SetExecuting
    \/ LoopExit
    \/ StageBegin
    \/ LogStart
    \/ ExecuteDefaultStage
    \/ \E written \in BOOLEAN : DefaultStageEnds(written)
    \/ ExecuteStage
    \/ \E o \in {"exit0", "nonzero", "timeout"} : AttemptEnds(o)
    \/ RetryAttempt
    \/ CompleteStageCall
    \/ LogSuccess
    \/ FailStageCall
    \/ LogError
    \/ AfterFailReturn
    \/ AfterFailContinue
    \/ Finish
    \/ ReturnTrue
    \/ Save

SpecProgress == InitProgress /\ [][NextProgress]_vars

\* ------------------------------------------------------------- SpecCleanup
\* StateManager.cleanup_completed_tasks over the task directories of
\* agents_dir; updated_at and now are counted in days.

Statuses == {INITIALIZED, EXECUTING} \cup Terminal

\* max_age_days of a call
AgeChoices == {1, 2}

\* the fields of state.json cleanup reads
TaskDir(status, updated_at) ==
    [workflow_status |-> status, updated_at |-> updated_at]

\* list_active_tasks: the directories of agents_dir that hold a state.json
ListActiveTasks == { t \in DOMAIN agents : agents[t] # Null }

\* cleanup_completed_tasks, lines 371-372: the test a task must pass
Archivable(state, cutoff_time) ==
    /\ state.workflow_status = COMPLETED
    /\ state.updated_at < cutoff_time

\* time passes
Tick ==
    /\ clock < MaxDays
    /\ clock' = clock + 1
    /\ lastCleanup' = Null
    /\ UNCHANGED <<agents, archived>>
    /\ UNCHANGED <<queueVars, watchVars, treeVars, lockVars>>
    /\ UNCHANGED <<storeVars, workerVars, stopVars, task_data, config,
                   shutdown_event, active_executions, otherVars>>

\* a mutator saves a task that is not terminal: save_state stamps updated_at
SaveTask(t, status) ==
    /\ t \in ListActiveTasks
    /\ agents[t].workflow_status \notin Terminal
    /\ agents' = [agents EXCEPT ![t] = TaskDir(status, clock)]
    /\ lastCleanup' = Null
    /\ UNCHANGED <<archived, clock>>
    /\ UNCHANGED <<queueVars, watchVars, treeVars, lockVars>>
    /\ UNCHANGED <<storeVars, workerVars, stopVars, task_data, config,
                   shutdown_event, active_executions, otherVars>>

\* cleanup_completed_tasks(max_age_days): every listed task that passes the
\* test is moved to archived/{task_id}
CleanupCompletedTasks(max_age_days) ==
    LET cutoff_time == clock - max_age_days
        moved == { t \in ListActiveTasks : Archivable(agents[t], cutoff_time) }
    IN  /\ agents' = [t \in DOMAIN agents |->
                        IF t \in moved THEN Null ELSE agents[t]]
        /\ archived' = [t \in DOMAIN archived |->
                        IF t \in moved THEN agents[t] ELSE archived[t]]
        /\ lastCleanup' = [max_age_days |-> max_age_days, at |-> clock,
                           cleanup_count |-> Cardinality(moved)]
        /\ UNCHANGED clock
        /\ UNCHANGED <<queueVars, watchVars, treeVars, lockVars>>
        /\ UNCHANGED <<storeVars, workerVars, stopVars, task_data, config,
                       shutdown_event, active_executions, otherVars>>

InitCleanup ==
    /\ InitCore
    /\ InitQueueVars
    /\ InitWatchVars
    /\ InitTreeVars
    /\ InitLockVars
    /\ agents \in [TaskIds -> { TaskDir(s, 0) : s \in Statuses }]
    /\ archived = [t \in TaskIds |-> Null]
    /\ clock = 0
    /\ lastCleanup = Null

NextCleanup ==
    \/ Tick
    \/ \E t \in TaskIds : \E s \in Statuses : SaveTask(t, s)
    \/ \E d \in AgeChoices : CleanupCompletedTasks(d)

SpecCleanup == InitCleanup /\ [][NextCleanup]_vars

\* -------------------------------------------------------------- SpecLocks
\* Three threads save the state of one task through one StateManager whose
\* _locks map is still empty: the state file is there from an earlier run.
\* _get_lock is three steps (the membership test, the creation and store,
\* the read for the return); `with lock` acquires the object returned.

nonLockVars == <<storeVars, workerVars, stopVars, task_data, config,
                 shutdown_event, active_executions, otherVars,
                 queueVars, watchVars, treeVars, cleanVars>>

\* _get_lock, line 85: if adw_id not in self._locks
GetLockTest(t) ==
    /\ lk[t].pc = "idle"
    /\ lk' = [lk EXCEPT ![t].pc = IF locks = 0 THEN "create" ELSE "return"]
    /\ UNCHANGED <<locks, made>>
    /\ UNCHANGED nonLockVars

\* _get_lock, line 86: self._locks[adw_id] = threading.Lock()
GetLockCreate(t) ==
    /\ lk[t].pc = "create"
    /\ made' = made + 1
    /\ locks' = made + 1
    /\ lk' = [lk EXCEPT ![t].pc = "return"]
    /\ UNCHANGED nonLockVars

\* _get_lock, line 87: return self._locks[adw_id]
GetLockReturn(t) ==
    /\ lk[t].pc = "return"
    /\ lk' = [lk EXCEPT ![t] = [pc |-> "acquire", lock |-> locks]]
    /\ UNCHANGED <<locks, made>>
    /\ UNCHANGED nonLockVars

\* save_state, line 148: with lock, entered when no thread holds that object
LockAcquire(t) ==
    /\ lk[t].pc = "acquire"
    /\ \A u \in LockThreads \ {t} :
            ~(lk[u].pc = "inside" /\ lk[u].lock = lk[t].lock)
    /\ lk' = [lk EXCEPT ![t].pc = "inside"]
    /\ UNCHANGED <<locks, made>>
    /\ UNCHANGED nonLockVars

\* save_state, lines 149-167: the file is written, the lock is released
LockRelease(t) ==
    /\ lk[t].pc = "inside"
    /\ lk' = [lk EXCEPT ![t] = [pc |-> "idle", lock |-> 0]]
    /\ UNCHANGED <<locks, made>>
    /\ UNCHANGED nonLockVars

\* a record of the task is on disk, no Lock object exists yet
InitLocks == InitStore

NextLocks ==
    \/ \E t \in LockThreads : GetLockTest(t)
    \/ \E t \in LockThreads : GetLockCreate(t)
    \/ \E t \in LockThreads : GetLockReturn(t)
    \/ \E t \in LockThreads : LockAcquire(t)
    \/ \E t \in LockThreads : LockRelease(t)

SpecLocks == InitLocks /\ [][NextLocks]_vars

\* ------------------------------------------------------------- SpecStages
\* Two threads call StateManager.complete_stage and fail_stage on one task,
\* any stage, any number of times; a save can fail.

StageOps ==
    { OpCompleteStage(s) : s \in SeqToSet(StoreTask.stages) } \cup
    { OpFailStage(s, Msg("Stage failed", s)) : s \in SeqToSet(StoreTask.stages) }

\* a thread that is in no call calls complete_stage or fail_stage
StagesCall ==
    /\ \E t \in Threads : \E op \in StageOps : MutatorLoad(t, op)
    /\ UNCHANGED <<workerVars, stopVars, envVars>>

InitStages ==
    /\ InitExt
    /\ base = UpdateStatus(StateData(StoreTask), EXECUTING,
                           "Processing task through stages", Null)
    /\ file = base
    /\ last = base
    /\ lock = None
    /\ th = [t \in Threads |-> IdleFrame]
    /\ task_data = StoreTask
    /\ config = [pipeline_continue_on_failure |-> FALSE, max_retries |-> 0]
    /\ InitProcessor
    /\ loaded = NotLoaded
    /\ crashed = FALSE
    /\ pyhash = [t \in TaskIds |-> 0]
    /\ adws = [t \in TaskIds |-> Null]

NextStages ==
    \/ StagesCall
    \/ Save
    \/ SaveOpenFails
    \/ SaveWriteFails

SpecStages == InitStages /\ [][NextStages]_vars

\* ------------------------------------------------------------- properties
IsState(f) == f # NoFile /\ f # Partial /\ f # Null

\* nothing of this task is in flight: process_task and stop_task have returned
Quiescent ==
    /\ wpc = "done"
    /\ spc # "called"
    /\ \A t \in Threads : th[t].pc = "idle"

\* a task that holds its ports: it has a record and its status is not terminal
Live(t) == adws[t] # Null /\ adws[t].workflow_status \notin Terminal

PortPair(t) == <<adws[t].backend_port, adws[t].frontend_port>>

\* C1: no two different live adw_ids hold the same (backend, frontend) pair,
\* as long as no more than RangeWidth tasks are live
C1_NoDoubleBooking ==
    LET live == { t \in TaskIds : Live(t) }
    IN  Cardinality(live) <= RangeWidth =>
            \A a \in live : \A b \in live : a # b => PortPair(a) # PortPair(b)

\* C2: when two mutators called concurrently on one adw_id have both returned
\* True, the record on disk is the result of applying one after the other
C2_MutatorsSerialize ==
    (Returned("worker") /\ Returned("stopper")
        /\ th["worker"].ret = "true" /\ th["stopper"].ret = "true") =>
        \/ file = Apply(th["stopper"].op, Apply(th["worker"].op, base))
        \/ file = Apply(th["worker"].op, Apply(th["stopper"].op, base))

\* C3: load_state of a task that has a saved record returns a complete
\* record, never None, whatever a concurrent, failed or interrupted save did
C3_LoadSeesCompleteRecord ==
    loaded # NotLoaded => IsState(loaded)

\* C4: a persisted record whose workflow_status is completed has every stage
\* of its stage list in completed_stages, and no other
C4_CompletedImpliesAllStages ==
    IsState(file) =>
        (file.workflow_status = COMPLETED =>
            SeqToSet(file.completed_stages) = SeqToSet(file.stages))

C6_RetryBound ==
    [][ /\ (launches' > launches /\ started' = started) =>
            /\ launches' = launches + 1
            /\ outcome \in {"nonzero", "timeout"}
            /\ launches <= config.max_retries
        /\ (failCalls' # failCalls /\ launches > 0) =>
            /\ launches = config.max_retries + 1
            /\ outcome \in {"nonzero", "timeout"}
        /\ (completeCalls' # completeCalls /\ launches > 0) =>
            outcome = "exit0"
      ]_vars

C6_Witness ==
    /\ wpc = "fail"
    /\ outcome \in {"nonzero", "timeout"}
    /\ config.max_retries = 2
    /\ launches = 3

\* initialized -> executing -> {completed, failed, cancelled}; ending a
\* task that is still initialized is let through as well
Allowed(a, b) ==
    \/ a = b
    \/ a = INITIALIZED /\ b = EXECUTING
    \/ a \in {INITIALIZED, EXECUTING} /\ b \in Terminal

\* C7: from one persisted record to the next the workflow_status stays or
\* moves along initialized -> executing -> {completed, failed, cancelled};
\* a terminal status never changes to another status
C7_StatusMachine ==
    [][ (IsState(last) /\ last' # last) =>
            Allowed(last.workflow_status, last'.workflow_status) ]_vars

\* C8: once the persisted status is terminal, and once stop_task has
\* returned True for a task the worker was executing, no stage is started
C8_NoStageAfterTerminal ==
    [][ ( \/ (stopSeen.returned /\ stopSeen.executing)
          \/ (IsState(last) /\ last.workflow_status \in Terminal) )
        => started' = started ]_vars

\* C9: a stop_task call made while a stage process of the task is running
\* sends that process a termination signal
C9_StopTerminatesProcess ==
    (stopSeen.called /\ stopSeen.running) => termSent

\* C10: with continue-on-failure disabled, after a stage has failed
\* terminally no later stage is started, process_task returns False, and
\* the final persisted record has status failed and that stage's error
C10_FailurePropagates ==
    (~config.pipeline_continue_on_failure /\ failCalls # {}) =>
        /\ wpc \in {"log_error", "after_fail", "done"}
        /\ Len(started) = i + 1
        /\ wpc = "done" => result = "false"
        /\ Quiescent =>
            /\ IsState(file)
            /\ file.workflow_status = FAILED
            /\ file.error_message = Msg("Stage failed", Stage)

\* C11: a persisted record whose workflow_status is failed has its
\* current_stage in failed_stages and an error_message
C11_FailedHasStageAndError ==
    (IsState(file) /\ file.workflow_status = FAILED) =>
        /\ Contains(file.failed_stages, file.current_stage)
        /\ file.error_message # Null

\* C12: whatever complete_stage and fail_stage calls were made, and however
\* they interleaved, no stage is in both completed_stages and failed_stages
\* of the record on disk
C12_CompletedFailedDisjoint ==
    IsState(file) =>
        SeqToSet(file.completed_stages) \cap SeqToSet(file.failed_stages) = {}

\* complete_stage("plan") and fail_stage("plan") ran concurrently, both saved
C12_Witness ==
    /\ IsState(file)
    /\ Contains(file.failed_stages, "plan")
    /\ th["worker"] = [pc |-> "idle", op |-> OpCompleteStage("plan"),
                       st |-> th["worker"].st, ret |-> "true"]
    /\ th["stopper"].pc = "idle"
    /\ th["stopper"].op = OpFailStage("plan", Msg("Stage failed", "plan"))
    /\ th["stopper"].ret = "true"
    /\ Contains(th["worker"].st.completed_stages, "plan")

\* C13: at most RangeWidth tasks hold a port pair at once: when every pair
\* of the range is held by a live task, initializing one more task gives
\* it no pair
C13_ExhaustionIsRefused ==
    Cardinality({ t \in DOMAIN adws : Live(t) }) <= RangeWidth

\* C14: whenever ports are allocated again for an adw_id that has a pair,
\* in the same process or after a restart, the pair is the same
C14_SamePairForSameId ==
    [][ \A t \in DOMAIN adws :
            (adws[t] # Null /\ adws'[t] # Null) =>
                /\ adws'[t].backend_port = adws[t].backend_port
                /\ adws'[t].frontend_port = adws[t].frontend_port ]_vars

\* C15: the item a worker takes from the queue has no item left behind it
\* of higher priority, and none of the same priority submitted before it
C15_DequeueOrder ==
    [][ \A e \in execution_queue \ execution_queue' :
            \A f \in execution_queue \cap execution_queue' :
                /\ ~(0 - f[1] > 0 - e[1])
                /\ ~(f[1] = e[1] /\ f[3] < e[3]) ]_vars

C17_PoolBound ==
    Cardinality({ t \in DOMAIN tstatus : tstatus[t] = "processing" }) <=
        Cardinality({ w \in DOMAIN wk : wk[w].pc # "off" })

\* C18: no trigger file is submitted more than once, however many polls
\* see it, also when it could not be removed
C18_SubmittedAtMostOnce ==
    \A n \in DOMAIN dir : dir[n] # Null => dir[n].submits <= 1

\* a trigger that was submitted and could not be removed is seen by a
\* later poll
C18_Witness ==
    /\ scan # Null
    /\ \E n \in scan.todo :
            /\ dir[n] # Null
            /\ dir[n].submits = 1
            /\ n \in processed_triggers

\* C19: a trigger file whose task_file exists and holds valid task data is
\* eventually submitted and consumed (removed, or marked processed)
C19_TriggerEventuallySubmitted ==
    \A n \in TriggerNames :
        (dir[n] # Null /\ dir[n].task = "valid" /\ dir[n].submits = 0) ~>
            \/ dir[n] = Null
            \/ (dir[n].submits > 0 /\ n \in processed_triggers)

\* C20: validate_worktree of a task with a state returns valid = false
\* before create_worktree, valid = true after a successful create_worktree,
\* and valid = false after remove_worktree
C20_ValidFollowsWorktree ==
    \A t \in DOMAIN trees :
        /\ trees[t].phase \in {"initialized", "removed"} =>
                ~ValidateWorktree(t).valid
        /\ trees[t].phase = "created" => ValidateWorktree(t).valid

\* C21: create_worktree for an adw_id whose worktree exists (a retry after a
\* successful create with the same branch_name) removes the old worktree and
\* succeeds as a single create would: when it fails, it fails with an error a
\* first create can give, never because of what the earlier create left
C21_RecreateSucceeds ==
    [][ \A t \in TreeIds :
            (trees[t].phase = "created" /\ trees'[t].phase = "create_failed")
            => trees'[t].result.error
                    \in {"invalid reference", "post-checkout hook failed"}
      ]_vars

\* C22 as stated: whenever create_worktree returns success = false, no
\* directory remains at the path and the result carries a non-empty error
C22_FailureLeavesNoDirectory ==
    \A t \in DOMAIN trees :
        trees[t].phase = "create_failed" =>
            /\ trees[t].dir = "none"
            /\ trees[t].result.error # ""

\* C22 as amended: whenever create_worktree returns success = false the
\* error is non-empty and no directory remains at the path unless the
\* removal of that directory itself failed
C22_FailureCleansUp ==
    \A t \in DOMAIN trees :
        trees[t].phase = "create_failed" =>
            /\ ~trees[t].result.success
            /\ trees[t].result.error # ""
            /\ trees[t].dir = "none" \/ trees[t].stuck

\* C22 witness: git checked the worktree out and then exited non-zero, and
\* the except branch removed the worktree
C22_Witness ==
    \E t \in DOMAIN trees :
        /\ trees[t].phase = "create_failed"
        /\ trees[t].result.error = "post-checkout hook failed"
        /\ trees[t].dir = "none"
        /\ ~trees[t].registered
        /\ trees[t].branch

\* C23: whenever create_worktree returns success = true, .ports.env exists in
\* the worktree with BACKEND_PORT, FRONTEND_PORT, the backend URL and ADW_ID
\* equal to the ports allocated to the adw_id and the adw_id
C23_SuccessHasPortsEnv ==
    \A t \in DOMAIN trees :
        (trees[t].phase = "created" /\ trees[t].result.success) =>
            trees[t].ports_env =
                PortsEnv(t, AllocatePorts(t).backend_port,
                         AllocatePorts(t).frontend_port)

\* C24: an attempt that exceeds its timeout is ended by the executor and
\* counted as one failed attempt, like a non-zero exit status: the process is
\* gone, no launch is added or taken back, a retry follows while attempts
\* remain (after the same backoff) and the stage fails when none remains
C24_TimeoutIsFailedAttempt ==
    [][ /\ (wpc = "running" /\ outcome' \in {"timeout", "nonzero"}) =>
            /\ ~procRunning'
            /\ launches' = launches
            /\ attempt' = attempt
            /\ wpc' = IF attempt < config.max_retries THEN "backoff" ELSE "fail"
        /\ (wpc = "backoff" /\ outcome \in {"timeout", "nonzero"}
                /\ wpc' # wpc) =>
            /\ wpc' = "running"
            /\ launches' = launches + 1
            /\ slept' = Append(slept, 2 ^ (attempt + 1))
      ]_vars

\* C24 witness: the first attempt timed out and a retry is due
C24_Witness ==
    /\ wpc = "backoff"
    /\ outcome = "timeout"
    /\ ~procRunning
    /\ launches = 1
    /\ config.max_retries = 2

RECURSIVE SumSeq(_)
SumSeq(q) == IF q = << >> THEN 0 ELSE Head(q) + SumSeq(Tail(q))

\* C25: before retry attempt k (k = 1 .. max_retries) the executor sleeps
\* exactly 2^k, nothing before the first attempt or after the last; a stage
\* with max_retries = 2 that always fails has slept 2 + 4 = 6 in total
C25_BackoffSchedule ==
    /\ Len(slept) = attempt
    /\ \A k \in 1..Len(slept) : slept[k] = 2 ^ k
    /\ launches > 0 => Len(slept) = launches - 1
    /\ (wpc = "fail" /\ launches > 0) => Len(slept) = config.max_retries
    /\ (wpc = "fail" /\ launches > 0 /\ config.max_retries = 2) =>
            SumSeq(slept) = 6

\* C25 witness: max_retries = 2, three failed attempts, the stage is about
\* to be marked failed
C25_Witness ==
    /\ wpc = "fail"
    /\ config.max_retries = 2
    /\ launches = 3
    /\ slept = <<2, 4>>

\* p <= q for two progress values kept as num/den
ProgressLeq(p, q) == p.num * q.den <= q.num * p.den

\* C26: while process_task runs, the persisted progress stays within
\* [0, 100] and never decreases from one persisted record to the next
C26_ProgressMonotone ==
    [][ (last # Null /\ last' # Null) =>
            /\ ProgressLeq(Progress(0, 1), last'.progress)
            /\ ProgressLeq(last'.progress, Progress(100, 1))
            /\ ProgressLeq(last.progress, last'.progress)
      ]_vars

\* p = q for two progress values kept as num/den
ProgressEq(p, q) == p.num * q.den = q.num * p.den

\* process_task returned True, no stage failed, nobody cancelled the task or
\* asked for shutdown
AllSucceeded ==
    /\ wpc = "done"
    /\ result = "true"
    /\ failCalls = {}
    /\ ~stopSeen.called
    /\ ~shutdown_event

\* the final persisted record is completed, at 100, with every stage
FinalRecordComplete ==
    /\ IsState(last)
    /\ file = last
    /\ last.workflow_status = COMPLETED
    /\ ProgressEq(last.progress, Progress(100, 1))
    /\ last.completed_stages = Stages

C28_ProgressIsCompletedShare ==
    [][ ( /\ last' # last
          /\ th["worker"].op.name
                \in {"update_stage", "complete_stage", "fail_stage"} )
        => ProgressEq(last'.progress,
                      Progress(Len(last'.completed_stages) * 100,
                               Len(last'.stages)))
      ]_vars

\* C29: when cleanup returns, every task that has been in a terminal status
\* (completed, failed, cancelled) for longer than the retention window is no
\* longer listed by list_active_tasks and its record is under archived/
C29_TerminalTasksArchived ==
    lastCleanup # Null =>
        \A t \in DOMAIN agents :
            LET r == IF agents[t] # Null THEN agents[t] ELSE archived[t]
            IN  ( /\ r # Null
                  /\ r.workflow_status \in Terminal
                  /\ r.updated_at < lastCleanup.at - lastCleanup.max_age_days )
                => (t \notin ListActiveTasks /\ archived[t] = r)

\* C30: after every initialize_state call the persisted record's all_adws
\* holds the task's own adw_id, for a new adw_id and for one that already
\* had a persisted record
C30_AllAdwsHoldsOwnId ==
    \A t \in DOMAIN adws :
        adws[t] # Null => Contains(adws[t].all_adws, t)

\* C31: every port pair allocated and stored has backend_port in 9100..9114,
\* frontend_port in 9200..9214, and frontend_port = backend_port + 100
C31_PortsInRange ==
    \A t \in DOMAIN adws :
        adws[t] # Null =>
            /\ adws[t].backend_port \in 9100..9114
            /\ adws[t].frontend_port \in 9200..9214
            /\ adws[t].frontend_port = adws[t].backend_port + 100

\* C31 witness: a task whose hash is negative holds the last pair of the range
C31_Witness ==
    \E t \in DOMAIN adws :
        /\ adws[t] # Null
        /\ pyhash[t] < 0
        /\ adws[t].backend_port = 9114
        /\ adws[t].frontend_port = 9214

\* s is a prefix of q
IsPrefix(s, q) == Len(s) <= Len(q) /\ SubSeq(q, 1, Len(s)) = s

\* C32: logs is append-only: the logs of every persisted record have the logs
\* of the record persisted before it as a prefix, whatever mutators ran,
\* alone or interleaved
C32_LogsAppendOnly ==
    [][ (IsState(last) /\ IsState(last')) => IsPrefix(last.logs, last'.logs)
      ]_vars

C34_TrueOnlyIfAllSucceeded ==
    result = "true" =>
        /\ started = Stages
        /\ failCalls = {}
        /\ \A k \in 1..TotalStages : Stages[k] \in completeCalls

\* C35: with continue-on-failure a failed stage does not abort the task:
\* stages are attempted in the order of stage_list, each at most once; a
\* return of False never follows a stage failure; and a run that ended with
\* no shutdown requested attempted every stage exactly once
C35_ContinueAttemptsAll ==
    config.pipeline_continue_on_failure =>
        /\ started = SubSeq(Stages, 1, Len(started))
        /\ result = "false" => (started = << >> /\ failCalls = {})
        /\ (result = "true" /\ ~shutdown_event) => started = Stages

\* C35 witness: the first of several stages failed, the later ones were
\* still attempted and the run ended with no shutdown
C35_Witness ==
    /\ config.pipeline_continue_on_failure
    /\ ~shutdown_event
    /\ result = "true"
    /\ TotalStages >= 2
    /\ Stages[1] \in failCalls
    /\ started = Stages

\* C36: validate_worktree answers git_recognizes (and so valid) for a task
\* only if `git worktree list` has an entry for exactly that task's path; a
\* registered worktree of another task whose path starts with this task's
\* path does not count
C36_RecognizesExactPathOnly ==
    \A t \in DOMAIN trees :
        ValidateWorktree(t).git_recognizes =>
            /\ GetWorktreePath(t) \in WorktreeList
            /\ trees[t].registered

\* C37: after any sequence of ADWState.complete_phase and fail_phase calls
\* no phase is in both completed_phases and failed_phases of the record
C37_PhaseListsDisjoint ==
    \A t \in TaskIds :
        adws[t] # Null =>
            SeqToSet(adws[t].completed_phases)
                \cap SeqToSet(adws[t].failed_phases) = {}

\* C38: for each task_id at most one lock object is ever created and used by
\* the state store, also when several threads ask for the lock of a task_id
\* not seen before at the same time; so two saves of one task are never in
\* the write critical section together
C38_OneLockPerTask ==
    /\ made <= 1
    /\ \A t \in LockThreads : \A u \in LockThreads \ {t} :
            ~(lk[t].pc = "inside" /\ lk[u].pc = "inside")

C40_ProcessedNameSkipped ==
    [][ \A n \in TriggerNames :
            n \in processed_triggers =>
                /\ n \in processed_triggers'
                /\ dir[n] # Null => dir'[n] = dir[n]
      ]_vars

\* C40 witness: a new trigger file with valid task data was created under
\* a processed name and a poll has it in its listing
C40_Witness ==
    /\ scan # Null
    /\ \E n \in scan.todo :
            /\ n \in processed_triggers
            /\ dir[n] # Null
            /\ dir[n].task = "valid"
            /\ dir[n].submits = 0

====
